---- MODULE Spec2Model ----
(***************************************************************************)
(* Personality engine (PersonalityEngine, the spec's TraitEngine) and life *)
(* event engine (EventSystem, the spec's LifeSimEngine) of the "Forks"     *)
(* life simulation, as state machines.                                     *)
(*                                                                         *)
(* Numbers: trait values, stress, ages and weights are integers.  The two  *)
(* real-valued results are kept exact by scaling: Enneagram scores are     *)
(* held times 10, choice probabilities times 100.                          *)
(***************************************************************************)
EXTENDS Integers, Sequences, FiniteSets, TLC

VARIABLES
    ocean,                \* PersonalityEngine.ocean: trait -> value
    confidence,           \* PersonalityEngine.confidence: trait -> band
    stress,               \* PersonalityEngine.stress
    trajectoryTags,       \* PersonalityEngine.trajectoryTags: <<[tag, count]>> in key order
    scenarios,            \* EventSystem.scenarios: [defined, list]
    tables,               \* EventSystem.trajectoryDescriptions / globalModifiers: [defined, doc]
    currentAge,           \* EventSystem.currentAge
    currentStage,         \* EventSystem.currentStage
    eventHistory,         \* EventSystem.eventHistory
    availableScenarios,   \* EventSystem.availableScenarios
    currentQuestionIndex, \* App.currentQuestionIndex
    fresh,                \* a second, freshly constructed pair of engines (restore target)
    lastOp,               \* the operation that ran last
    arg,                  \* its argument
    ret                   \* what it returned

traitVars == <<ocean, confidence, stress, trajectoryTags>>
eventVars == <<scenarios, tables, currentAge, currentStage, eventHistory, availableScenarios>>
vars == <<ocean, confidence, stress, trajectoryTags, scenarios, tables, currentAge,
          currentStage, eventHistory, availableScenarios, currentQuestionIndex, fresh,
          lastOp, arg, ret>>

----------------------------------------------------------------------------
(* Bounds of the model *)

\* Half-width, in steps of 10 around the midpoint, of the trait values the
\* derivation specification starts from.
GridHalf == 2

\* Most event records a session of the life specification resolves itself
\* (longer histories enter through restored snapshots).
MaxHist == 2

\* Most occurrences of one trajectory tag between two resets of the
\* personality engine.
MaxTagCount == 2

\* Number of assessment questions (App.questions.length, from data/questions.json).
MaxQuestions == 1

\* How many times in one session the random variation of the age advance is 1
MaxLongSteps == 2

----------------------------------------------------------------------------
(* PersonalityEngine *)

Traits == {"O", "C", "E", "A", "N"}

Max(a, b) == IF a >= b THEN a ELSE b
Min(a, b) == IF a <= b THEN a ELSE b

InitOcean == [t \in Traits |-> 50]
InitConfidence == [t \in Traits |-> 30]
InitStress == 30
InitTags == <<>>

\* Math.max(0, Math.min(100, v + d))
ClampTraitNoFloor(v) == Min(100, v)
ClampTrait(v) == Max(0, Min(100, v))

\* Math.max(5, c - 2)
LowerConfidenceNoFloor(c) == c - 2
LowerConfidence(c) == Max(5, c - 2)

\* A weight map is the sequence of its own properties, [key, weight] records
\* with distinct keys, in the order for..in visits them.
HasKey(w, t) == \E i \in 1..Len(w) : w[i].key = t
WeightOf(w, t) == w[CHOOSE i \in 1..Len(w) : w[i].key = t].weight

\* applyWeights: keys that are not own properties of ocean are skipped.
ApplyWeightsOcean(o, w) ==
    [t \in Traits |-> IF HasKey(w, t) THEN ClampTrait(o[t] + WeightOf(w, t)) ELSE o[t]]
ApplyWeightsConfidenceAll(c, w) == [t \in Traits |-> LowerConfidence(c[t])]
ApplyWeightsConfidence(c, w) ==
    [t \in Traits |-> IF HasKey(w, t) THEN LowerConfidence(c[t]) ELSE c[t]]

\* applyStress
ApplyStressNoFloor(s, d) == Min(100, s + d)
ApplyStressTo(s, d) == Max(0, Min(100, s + d))

\* The own keys of an object come in the order integer indices ascending, then
\* the other strings in the order they were created.  A key is an integer index
\* when it is the decimal numeral, without leading zero, of a number up to 2^32 - 2.
DecimalDigits == <<"0", "1", "2", "3", "4", "5", "6", "7", "8", "9">>
IsDigit(c) == \E d \in 1..10 : DecimalDigits[d] = c
DigitValue(c) == (CHOOSE d \in 1..10 : DecimalDigits[d] = c) - 1

\* a < b for numerals without leading zeros: the shorter, or at equal length
\* the one with the smaller digit where they first differ
RECURSIVE DigitsLess(_, _, _)
DigitsLess(a, b, i) ==
    IF i > Len(a) THEN FALSE
    ELSE LET x == DigitValue(SubSeq(a, i, i))
             y == DigitValue(SubSeq(b, i, i))
         IN  IF x # y THEN x < y ELSE DigitsLess(a, b, i + 1)

NumeralLess(a, b) == Len(a) < Len(b) \/ (Len(a) = Len(b) /\ DigitsLess(a, b, 1))

IsArrayIndex(key) ==
    /\ Len(key) >= 1
    /\ \A i \in 1..Len(key) : IsDigit(SubSeq(key, i, i))
    /\ (Len(key) > 1 => SubSeq(key, 1, 1) # "0")
    /\ ~NumeralLess("4294967294", key)

\* Where a new key goes among the entries tt
RECURSIVE KeyPosition(_, _, _)
KeyPosition(tt, key, i) ==
    IF i > Len(tt) THEN i
    ELSE IF ~IsArrayIndex(key) THEN Len(tt) + 1
    ELSE IF ~IsArrayIndex(tt[i].tag) THEN i
    ELSE IF NumeralLess(key, tt[i].tag) THEN i
    ELSE KeyPosition(tt, key, i + 1)

\* addTrajectoryTags: one counter per tag; trajectoryTags lists the entries in
\* the order Object.entries gives them
RECURSIVE TagIndex(_, _, _)
TagIndex(tt, tag, i) ==
    IF i > Len(tt) THEN 0
    ELSE IF tt[i].tag = tag THEN i
    ELSE TagIndex(tt, tag, i + 1)

AddOneTagAppending(tt, tag) ==
    LET i == TagIndex(tt, tag, 1)
    IN  IF i = 0 THEN Append(tt, [tag |-> tag, count |-> 1])
        ELSE [tt EXCEPT ![i].count = @ + 1]
AddOneTag(tt, tag) ==
    LET i == TagIndex(tt, tag, 1)
        at == KeyPosition(tt, tag, 1)
    IN  IF i = 0
        THEN SubSeq(tt, 1, at - 1) \o <<[tag |-> tag, count |-> 1]>> \o SubSeq(tt, at, Len(tt))
        ELSE [tt EXCEPT ![i].count = @ + 1]

RECURSIVE AddTags(_, _)
AddTags(tt, tags) ==
    IF tags = <<>> THEN tt ELSE AddTags(AddOneTag(tt, Head(tags)), Tail(tags))

\* Array.prototype.sort with comparator (a, b) => b.key - a.key: a stable sort
\* into non-increasing key order; entries are records with a "key" field.
RECURSIVE InsertDesc(_, _)
InsertDesc(sorted, e) ==
    IF sorted = <<>> THEN <<e>>
    ELSE IF Head(sorted).key >= e.key THEN <<Head(sorted)>> \o InsertDesc(Tail(sorted), e)
    ELSE <<e>> \o sorted

RECURSIVE SortDesc(_)
SortDesc(s) ==
    IF s = <<>> THEN <<>>
    ELSE InsertDesc(SortDesc(SubSeq(s, 1, Len(s) - 1)), s[Len(s)])

\* getDominantTrajectories(count): the entries sorted by count, the first count
\* of them, their tags
RECURSIVE EntryTags(_)
EntryTags(entries) ==
    IF entries = <<>> THEN <<>> ELSE <<Head(entries).tag>> \o EntryTags(Tail(entries))

RECURSIVE CountEntries(_)
CountEntries(tt) ==
    IF tt = <<>> THEN <<>>
    ELSE <<[tag |-> Head(tt).tag, key |-> Head(tt).count]>> \o CountEntries(Tail(tt))

GetDominantTrajectories(tt, count) ==
    LET sorted == SortDesc(CountEntries(tt))
    IN  EntryTags(SubSeq(sorted, 1, Min(count, Len(sorted))))

\* deriveMBTI
DeriveMBTIStrict(o) ==
    (IF o["E"] > 50 THEN "E" ELSE "I") \o (IF o["O"] > 50 THEN "N" ELSE "S")
    \o (IF o["A"] > 50 THEN "F" ELSE "T") \o (IF o["C"] > 50 THEN "J" ELSE "P")
DeriveMBTIJudgingFromOpenness(o) ==
    (IF o["E"] >= 50 THEN "E" ELSE "I") \o (IF o["O"] >= 50 THEN "N" ELSE "S")
    \o (IF o["A"] >= 50 THEN "F" ELSE "T") \o (IF o["O"] >= 50 THEN "J" ELSE "P")
DeriveMBTI(o) ==
    (IF o["E"] >= 50 THEN "E" ELSE "I") \o (IF o["O"] >= 50 THEN "N" ELSE "S")
    \o (IF o["A"] >= 50 THEN "F" ELSE "T") \o (IF o["C"] >= 50 THEN "J" ELSE "P")

\* deriveEnneagram: the nine scores, each times 10, in ascending key order
EnneagramScores(o) ==
    LET O == o["O"]  C == o["C"]  E == o["E"]  A == o["A"]  N == o["N"]
    IN  << 15 * C + 5 * (100 - A) - 3 * O,
           15 * A + 5 * E + 3 * N,
           10 * C + 10 * E + 5 * (100 - A),
           10 * O + 10 * N + 5 * (100 - E),
           10 * O + 10 * (100 - E) + 5 * (100 - A),
           10 * N + 5 * A + 5 * C,
           10 * O + 10 * E + 5 * (100 - N),
           10 * E + 10 * (100 - A) + 5 * (100 - N),
           10 * A + 10 * (100 - N) + 3 * (100 - C) >>

\* Object.entries(scores).sort((a, b) => b[1] - a[1])[0][0], then parseInt
EnneagramLastOfTies(o) ==
    LET sc == EnneagramScores(o)
        sorted == SortDesc([i \in 1..9 |-> [type |-> i, key |-> sc[i]]])
        top == {i \in 1..9 : sorted[i].key = sorted[1].key}
    IN  sorted[CHOOSE i \in top : \A j \in top : j <= i].type
DeriveEnneagram(o) ==
    LET sc == EnneagramScores(o)
        sorted == SortDesc([i \in 1..9 |-> [type |-> i, key |-> sc[i]]])
    IN  sorted[1].type

\* calculateChoiceProbability, times 100.  A choice is a record; hasWeights and
\* hasStress say whether ocean_weights and stress_delta are present.
AlignmentTerm(o, w, t) ==
    IF ~HasKey(w, t) THEN 0
    ELSE IF WeightOf(w, t) > 0 THEN (o[t] - 50) * WeightOf(w, t) * 5
    ELSE (50 - o[t]) * (-WeightOf(w, t)) * 5

StressTerm(s, choice) ==
    IF choice.hasStress /\ choice.stress_delta < 0 THEN s * 20
    ELSE IF choice.hasStress /\ choice.stress_delta > 10 THEN -(s * 15)
    ELSE 0

RawAlignment(o, s, choice) ==
    5000 + AlignmentTerm(o, choice.ocean_weights, "O")
         + AlignmentTerm(o, choice.ocean_weights, "C")
         + AlignmentTerm(o, choice.ocean_weights, "E")
         + AlignmentTerm(o, choice.ocean_weights, "A")
         + AlignmentTerm(o, choice.ocean_weights, "N")
         + StressTerm(s, choice)

ChoiceProbabilityNoFloor(o, s, choice) ==
    IF ~choice.hasWeights THEN 50
    ELSE Min(9000, RawAlignment(o, s, choice))
CalculateChoiceProbability(o, s, choice) ==
    IF ~choice.hasWeights THEN 50
    ELSE Max(1000, Min(9000, RawAlignment(o, s, choice)))

\* getState / restoreState: copies of the four owned entities
GetState(p) ==
    [ocean |-> p.ocean, confidence |-> p.confidence, stress |-> p.stress,
     trajectoryTags |-> p.trajectoryTags]
RestoreState(p, state) ==
    [p EXCEPT !.ocean = state.ocean, !.confidence = state.confidence,
              !.stress = state.stress, !.trajectoryTags = state.trajectoryTags]

\* The engine as constructed (the object literal)
ConstructedPersonality ==
    [ocean |-> InitOcean, confidence |-> InitConfidence, stress |-> InitStress,
     trajectoryTags |-> InitTags]

----------------------------------------------------------------------------
(* EventSystem *)

InitAge == 18
EndAge == 75
MinHistoryToEnd == 5

\* updateStage
UpdateStageNoMid(age) ==
    IF age <= 25 THEN "early" ELSE "later"
UpdateStage(age) ==
    IF age <= 25 THEN "early" ELSE IF age <= 50 THEN "mid" ELSE "later"

\* calculateAgeAdvance: ({early: 2, mid: 3, later: 4}[stage] || 2) + floor(random() * 2)
CalculateAgeAdvanceFlat(stage, variation) == 2 + variation
CalculateAgeAdvance(stage, variation) ==
    (CASE stage = "early" -> 2
       [] stage = "mid" -> 3
       [] stage = "later" -> 4
       [] OTHER -> 2) + variation

UsedIdsButLast(history) == {history[i].scenarioId : i \in 1..(Len(history) - 1)}
UsedIds(history) == {history[i].scenarioId : i \in 1..Len(history)}

\* The filter callback of refreshAvailableScenarios.  "throws" is the TypeError
\* of destructuring a missing age_range, which is reached only by a scenario
\* that passed the two earlier tests.
ReachesAgeRange(sc, history, stage) ==
    /\ sc.id \notin UsedIds(history)
    /\ (sc.life_stage = "any" \/ sc.life_stage = stage)

KeepsIgnoringHistory(sc, history, stage, age) ==
    /\ (sc.life_stage = "any" \/ sc.life_stage = stage)
    /\ sc.hasAgeRange
    /\ ~(age < sc.age_range[1] \/ age > sc.age_range[2])
Keeps(sc, history, stage, age) ==
    /\ ReachesAgeRange(sc, history, stage)
    /\ sc.hasAgeRange
    /\ ~(age < sc.age_range[1] \/ age > sc.age_range[2])

\* refreshAvailableScenarios on engine record e: the engine afterwards and
\* whether the call threw (scenarios undefined, or a scenario without age_range).
RefreshAvailableScenarios(e) ==
    LET throws ==
            \/ ~e.scenarios.defined
            \/ \E i \in 1..Len(e.scenarios.list) :
                  /\ ReachesAgeRange(e.scenarios.list[i], e.eventHistory, e.currentStage)
                  /\ ~e.scenarios.list[i].hasAgeRange
        keep(sc) == Keeps(sc, e.eventHistory, e.currentStage, e.currentAge)
    IN  IF throws THEN [threw |-> TRUE, e |-> e]
        ELSE [threw |-> FALSE,
              e |-> [e EXCEPT !.availableScenarios = SelectSeq(e.scenarios.list, keep)]]

\* The engine as constructed (the object literal)
ConstructedEvents ==
    [scenarios |-> [defined |-> TRUE, list |-> <<>>],
     tables |-> [trajectoryDescriptions |-> "undefined", globalModifiers |-> "undefined"],
     currentAge |-> InitAge, currentStage |-> "early", eventHistory |-> <<>>,
     availableScenarios |-> <<>>]

\* loadScenarios: doc is what fetch and response.json() produce.
\*   kind "unreachable": fetch rejects; kind "unparsable": json() rejects;
\*   kind "parsed": data, whose scenarios list may be missing (undefined).
LoadScenarios(e, doc) ==
    IF doc.kind # "parsed" THEN [value |-> FALSE, e |-> e]
    ELSE LET assigned == [e EXCEPT !.scenarios = doc.scenarios, !.tables = doc.tables]
             r == RefreshAvailableScenarios(assigned)
         IN  IF r.threw THEN [value |-> FALSE, e |-> assigned]
             ELSE [value |-> TRUE, e |-> r.e]

\* reset
ResetEvents(e) ==
    RefreshAvailableScenarios(
        [e EXCEPT !.currentAge = InitAge, !.currentStage = "early", !.eventHistory = <<>>])

\* processChoice on the two engines p (PersonalityEngine) and e (EventSystem)
OceanChangesEveryTrait(before, after) == [t \in Traits |-> after[t] - before[t]]
OceanChanges(before, after) ==
    [t \in {u \in Traits : after[u] - before[u] # 0} |-> after[t] - before[t]]

ProcessChoice(p, e, scenario, choice, variation) ==
    LET p1 == IF choice.hasWeights
              THEN [p EXCEPT !.ocean = ApplyWeightsOcean(p.ocean, choice.ocean_weights),
                             !.confidence = ApplyWeightsConfidence(p.confidence,
                                                                   choice.ocean_weights)]
              ELSE p
        p2 == IF choice.hasStress
              THEN [p1 EXCEPT !.stress = ApplyStressTo(p1.stress, choice.stress_delta)]
              ELSE p1
        p3 == IF choice.hasTags
              THEN [p2 EXCEPT !.trajectoryTags = AddTags(p2.trajectoryTags,
                                                         choice.trajectory_tags)]
              ELSE p2
        event == [scenarioId |-> scenario.id, title |-> scenario.title,
                  choiceId |-> choice.id, choiceTitle |-> choice.title,
                  age |-> e.currentAge, stage |-> e.currentStage,
                  outcome |-> choice.outcome,
                  oceanBefore |-> p.ocean, stressBefore |-> p.stress,
                  oceanAfter |-> p3.ocean, stressAfter |-> p3.stress,
                  oceanChanges |-> OceanChanges(p.ocean, p3.ocean)]
        age == e.currentAge + CalculateAgeAdvance(e.currentStage, variation)
    IN  [p |-> p3,
         e |-> [e EXCEPT !.eventHistory = Append(e.eventHistory, event),
                         !.currentAge = age,
                         !.currentStage = UpdateStage(age)],
         value |-> event]

\* shouldEndSimulation: the engine afterwards, whether it threw, and the result
ShouldEndSimulationEager(e) ==
    LET r == RefreshAvailableScenarios(e)
    IN  IF e.currentAge >= EndAge THEN [threw |-> FALSE, value |-> TRUE, e |-> e]
        ELSE IF r.threw THEN [threw |-> TRUE, value |-> FALSE, e |-> e]
        ELSE [threw |-> FALSE, e |-> r.e,
              value |-> Len(r.e.availableScenarios) = 0]
ShouldEndSimulationPast(e) ==
    LET r == RefreshAvailableScenarios(e)
    IN  IF e.currentAge > EndAge THEN [threw |-> FALSE, value |-> TRUE, e |-> e]
        ELSE IF r.threw THEN [threw |-> TRUE, value |-> FALSE, e |-> e]
        ELSE [threw |-> FALSE, e |-> r.e,
              value |-> (Len(r.e.availableScenarios) = 0
                         /\ Len(r.e.eventHistory) >= MinHistoryToEnd)]

ShouldEndSimulation(e) ==
    LET r == RefreshAvailableScenarios(e)
    IN  IF e.currentAge >= EndAge THEN [threw |-> FALSE, value |-> TRUE, e |-> e]
        ELSE IF r.threw THEN [threw |-> TRUE, value |-> FALSE, e |-> e]
        ELSE [threw |-> FALSE, e |-> r.e,
              value |-> (Len(r.e.availableScenarios) = 0
                         /\ Len(r.e.eventHistory) >= MinHistoryToEnd)]

\* String.prototype.includes: t occurs in s
Includes(s, t) ==
    \E i \in 1..(Len(s) - Len(t) + 1) : SubSeq(s, i, i + Len(t) - 1) = t

\* The boost of selectNextScenario: the context tags of sc that contain, or are
\* contained in, one of the dominant tags
MatchingTags(sc, dominantTags) ==
    {i \in 1..Len(sc.context_tags) :
        \E d \in 1..Len(dominantTags) :
            \/ Includes(sc.context_tags[i], dominantTags[d])
            \/ Includes(dominantTags[d], sc.context_tags[i])}

\* weight = 1 + 0.5 per matching tag + Math.random() * 0.5, times 100
ScenarioWeightNoBoost(sc, dominantTags, j) == 100 + j
ScenarioWeight(sc, dominantTags, j) == 100 + 50 * Cardinality(MatchingTags(sc, dominantTags)) + j

\* availableScenarios.map(scenario => ({scenario, weight})), the weight under key
RECURSIVE Weighted(_, _, _)
Weighted(avail, dominantTags, jitter) ==
    IF avail = <<>> THEN <<>>
    ELSE <<[scenario |-> Head(avail),
            key |-> ScenarioWeight(Head(avail), dominantTags, Head(jitter))]>>
         \o Weighted(Tail(avail), dominantTags, Tail(jitter))

\* selectNextScenario on engines p and e.  jitter[i] is what the random term
\* adds to the weight of the i-th available scenario, pick the index drawn among
\* the top candidates (Math.floor(Math.random() * topCandidates.length) + 1).
SelectNextScenario(p, e, jitter, pick) ==
    LET r == RefreshAvailableScenarios(e)
        avail == r.e.availableScenarios
        dominantTags == GetDominantTrajectories(p.trajectoryTags, 3)
        sorted == SortDesc(Weighted(avail, dominantTags, jitter))
        topCandidates == SubSeq(sorted, 1, Min(3, Len(sorted)))
    IN  IF r.threw THEN [threw |-> TRUE, found |-> FALSE, value |-> "undefined", e |-> e]
        ELSE IF Len(avail) = 0
        THEN [threw |-> FALSE, found |-> FALSE, value |-> "null", e |-> r.e]
        ELSE [threw |-> FALSE, found |-> TRUE, value |-> topCandidates[pick].scenario,
              e |-> r.e]

\* App.presentNextScenario on engines p and e: shouldEndSimulation, and unless
\* it says so, selectNextScenario.  shown is what the screen holds afterwards:
\* the timeline (the session has stopped), the selected scenario with its
\* choices, or, when a call threw, nothing new.
PresentNextScenario(p, e, jitter, pick) ==
    LET end == ShouldEndSimulation(e)
        sel == SelectNextScenario(p, end.e, jitter, pick)
    IN  IF end.threw THEN [threw |-> TRUE, shown |-> "nothing", e |-> end.e]
        ELSE IF end.value THEN [threw |-> FALSE, shown |-> "timeline", e |-> end.e]
        ELSE IF sel.threw THEN [threw |-> TRUE, shown |-> "nothing", e |-> sel.e]
        ELSE IF ~sel.found THEN [threw |-> FALSE, shown |-> "timeline", e |-> sel.e]
        ELSE [threw |-> FALSE, shown |-> "scenario", scenario |-> sel.value, e |-> sel.e]

\* getTimeline: the history mapped to what the timeline shows
TimelineEntry(event) ==
    [age |-> event.age, stage |-> event.stage, title |-> event.title,
     choice |-> event.choiceTitle, outcome |-> event.outcome]
GetTimelineNewestFirst(e) ==
    [i \in 1..Len(e.eventHistory) |->
        TimelineEntry(e.eventHistory[Len(e.eventHistory) + 1 - i])]
GetTimeline(e) ==
    [i \in 1..Len(e.eventHistory) |-> TimelineEntry(e.eventHistory[i])]

\* getChoiceAlignment: the band of a probability (times 100), first match
AlignmentBandInclusive(probability) ==
    IF probability >= 7000 THEN "strongly aligned"
    ELSE IF probability >= 5500 THEN "somewhat aligned"
    ELSE IF probability <= 3000 THEN "against your nature"
    ELSE IF probability <= 4500 THEN "a stretch for you"
    ELSE "neutral"
AlignmentBand(probability) ==
    IF probability > 7000 THEN "strongly aligned"
    ELSE IF probability > 5500 THEN "somewhat aligned"
    ELSE IF probability < 3000 THEN "against your nature"
    ELSE IF probability < 4500 THEN "a stretch for you"
    ELSE "neutral"

GetChoiceAlignment(p, choice) ==
    AlignmentBand(CalculateChoiceProbability(p.ocean, p.stress, choice))

\* getState / restoreState
GetStateEvents(e) ==
    [currentAge |-> e.currentAge, currentStage |-> e.currentStage,
     eventHistory |-> e.eventHistory]
RestoreStateEventsStale(e, state) ==
    [threw |-> FALSE,
     e |-> [e EXCEPT !.currentAge = state.currentAge, !.currentStage = state.currentStage,
                     !.eventHistory = state.eventHistory]]
RestoreStateEvents(e, state) ==
    RefreshAvailableScenarios(
        [e EXCEPT !.currentAge = state.currentAge, !.currentStage = state.currentStage,
                  !.eventHistory = state.eventHistory])

----------------------------------------------------------------------------
(* Inputs: weight maps, choices, catalogue documents *)

W(k, n) == [key |-> k, weight |-> n]

NoWeights == <<>>

\* Choices.  ocean_weights, stress_delta and trajectory_tags are optional.
ChoiceCommit ==
    [id |-> "commit", title |-> "Commit", outcome |-> "settled",
     hasWeights |-> TRUE, ocean_weights |-> <<W("C", 15)>>,
     hasStress |-> TRUE, stress_delta |-> -10,
     hasTags |-> TRUE, trajectory_tags |-> <<"career">>]
ChoiceDrift ==
    [id |-> "drift", title |-> "Drift", outcome |-> "unchanged",
     hasWeights |-> FALSE, ocean_weights |-> NoWeights,
     hasStress |-> FALSE, stress_delta |-> 0,
     hasTags |-> FALSE, trajectory_tags |-> <<>>]
ChoiceLeap ==
    [id |-> "leap", title |-> "Leap", outcome |-> "uprooted",
     hasWeights |-> TRUE, ocean_weights |-> <<W("O", -60), W("luck", 5)>>,
     hasStress |-> TRUE, stress_delta |-> 20,
     hasTags |-> TRUE, trajectory_tags |-> <<"risk", "career">>]

\* Probes for calculateChoiceProbability: extreme, zero, empty and unrecognized entries
ProbeChoices ==
    { ChoiceCommit, ChoiceLeap, ChoiceDrift,
      [ChoiceDrift EXCEPT !.id = "all-in", !.hasWeights = TRUE,
          !.ocean_weights = <<W("O", 100), W("E", 100), W("A", 100), W("luck", 50)>>,
          !.hasStress = TRUE, !.stress_delta = 11],
      [ChoiceDrift EXCEPT !.id = "withdraw", !.hasWeights = TRUE,
          !.ocean_weights = <<W("N", -100), W("C", -100), W("E", 0)>>],
      [ChoiceDrift EXCEPT !.id = "shrug", !.hasWeights = TRUE,
          !.ocean_weights = <<>>, !.hasStress = TRUE, !.stress_delta = 10] }

\* Probes for getChoiceAlignment: on the trait grid their probabilities land on
\* and around 30, 45, 55 and 70
ChoiceNudge ==
    [ChoiceDrift EXCEPT !.id = "nudge", !.hasWeights = TRUE, !.ocean_weights = <<W("O", 10)>>]
ChoiceLean ==
    [ChoiceDrift EXCEPT !.id = "lean", !.hasWeights = TRUE, !.ocean_weights = <<W("O", 20)>>]
AlignmentProbes == {ChoiceNudge, ChoiceLean, ChoiceCommit, ChoiceDrift}

\* Scenarios
ScenarioFirstJob ==
    [id |-> "first-job", title |-> "First job", life_stage |-> "early",
     hasAgeRange |-> TRUE, age_range |-> <<18, 25>>,
     context_tags |-> <<"career">>, choices |-> <<ChoiceCommit>>]
ScenarioMove ==
    [id |-> "move", title |-> "Move away", life_stage |-> "any",
     hasAgeRange |-> TRUE, age_range |-> <<18, 80>>,
     context_tags |-> <<"risk">>, choices |-> <<ChoiceLeap>>]
ScenarioReunion ==
    [id |-> "reunion", title |-> "Reunion", life_stage |-> "mid",
     hasAgeRange |-> TRUE, age_range |-> <<26, 30>>,
     context_tags |-> <<"family">>, choices |-> <<ChoiceDrift>>]
ScenarioNoRange ==
    [id |-> "draft", title |-> "Draft", life_stage |-> "any",
     hasAgeRange |-> FALSE, age_range |-> <<0, 0>>,
     context_tags |-> <<>>, choices |-> <<ChoiceDrift>>]

Catalogue == <<ScenarioFirstJob, ScenarioMove, ScenarioReunion>>

\* What loadScenarios can get from fetch('data/scenarios.json')
DocGood ==
    [kind |-> "parsed", scenarios |-> [defined |-> TRUE, list |-> Catalogue],
     tables |-> [trajectoryDescriptions |-> "descriptions", globalModifiers |-> "modifiers"]]
DocNoList ==
    [kind |-> "parsed", scenarios |-> [defined |-> FALSE, list |-> <<>>],
     tables |-> [trajectoryDescriptions |-> "undefined", globalModifiers |-> "undefined"]]
DocNoRange ==
    [kind |-> "parsed", scenarios |-> [defined |-> TRUE, list |-> <<ScenarioNoRange>>],
     tables |-> [trajectoryDescriptions |-> "draft descriptions",
                 globalModifiers |-> "undefined"]]
DocUnreachable == [DocNoList EXCEPT !.kind = "unreachable"]
DocUnparsable == [DocNoList EXCEPT !.kind = "unparsable"]

Documents == {DocGood, DocNoList, DocNoRange, DocUnreachable, DocUnparsable}

\* A wider catalogue: at 18 four scenarios are available, so that the top three
\* leave one out.  Its choices only grant tags; context tags equal, contain or
\* are contained in those tags.
ChoiceAccept ==
    [ChoiceDrift EXCEPT !.id = "accept", !.title = "Accept", !.outcome = "hired",
                        !.hasTags = TRUE, !.trajectory_tags = <<"career", "risk">>]
ChoiceSketch ==
    [ChoiceDrift EXCEPT !.id = "sketch", !.title = "Sketch", !.outcome = "absorbed",
                        !.hasTags = TRUE, !.trajectory_tags = <<"art", "travel">>]
ScenarioOffer ==
    [id |-> "offer", title |-> "Offer", life_stage |-> "early",
     hasAgeRange |-> TRUE, age_range |-> <<18, 25>>,
     context_tags |-> <<"career">>, choices |-> <<ChoiceAccept>>]
ScenarioGamble ==
    [id |-> "gamble", title |-> "Gamble", life_stage |-> "any",
     hasAgeRange |-> TRUE, age_range |-> <<18, 60>>,
     context_tags |-> <<"risk">>, choices |-> <<ChoiceDrift>>]
ScenarioStudio ==
    [id |-> "studio", title |-> "Studio", life_stage |-> "early",
     hasAgeRange |-> TRUE, age_range |-> <<18, 22>>,
     context_tags |-> <<"art", "care">>, choices |-> <<ChoiceSketch>>]
ScenarioVoyage ==
    [id |-> "voyage", title |-> "Voyage", life_stage |-> "any",
     hasAgeRange |-> TRUE, age_range |-> <<18, 40>>,
     context_tags |-> <<"travel", "risk-taking">>, choices |-> <<ChoiceDrift>>]

CatalogueWide == <<ScenarioOffer, ScenarioGamble, ScenarioStudio, ScenarioVoyage>>

DocWide == [DocGood EXCEPT !.scenarios = [defined |-> TRUE, list |-> CatalogueWide]]

\* A catalogue that never runs out before the age does: one scenario for every
\* two years of age from 18 on, each of stage "any" with one choice that
\* changes nothing.  The age advances by at least two, so at every age exactly
\* one of them is available.
MaxYears == 29
ScenarioYears(i) ==
    [id |-> "years-" \o ToString(i), title |-> "Years " \o ToString(i),
     life_stage |-> "any", hasAgeRange |-> TRUE,
     age_range |-> <<InitAge + 2 * (i - 1), InitAge + 2 * (i - 1) + 1>>,
     context_tags |-> <<>>, choices |-> <<ChoiceDrift>>]
RECURSIVE YearsUpTo(_)
YearsUpTo(n) == IF n = 0 THEN <<>> ELSE Append(YearsUpTo(n - 1), ScenarioYears(n))
CatalogueYears == YearsUpTo(MaxYears)

DocYears == [DocGood EXCEPT !.scenarios = [defined |-> TRUE, list |-> CatalogueYears]]

\* A short catalogue a session can use up: its scenarios stay in their age
\* range after they were resolved, and their one choice changes nothing
ScenarioDetour ==
    [ScenarioGamble EXCEPT !.id = "detour", !.title = "Detour", !.context_tags = <<"travel">>]
ScenarioPause ==
    [ScenarioGamble EXCEPT !.id = "pause", !.title = "Pause", !.life_stage = "early",
                           !.age_range = <<18, 25>>]
CatalogueShort == <<ScenarioGamble, ScenarioDetour, ScenarioPause>>

DocShort == [DocGood EXCEPT !.scenarios = [defined |-> TRUE, list |-> CatalogueShort]]

\* Snapshots of earlier sessions: EventSystem.getState() after n choices, each
\* the first choice of catalogue scenario k with variation 1, from a reset engine.
RECURSIVE Played(_, _)
Played(k, n) ==
    IF n = 0
    THEN [p |-> ConstructedPersonality, e |-> LoadScenarios(ConstructedEvents, DocGood).e]
    ELSE LET prev == Played(k, n - 1)
             r == ProcessChoice(prev.p, prev.e, Catalogue[k], Catalogue[k].choices[1], 1)
         IN  [p |-> r.p, e |-> r.e]

SavedStates == {GetStateEvents(Played(k, n).e) : k \in {1, 2}, n \in {4, 5, 13, 14}}

\* Snapshots that no getState() produced (localStorage holds whatever was
\* written to it): the stage disagrees with the age.
ForgedStates ==
    { [currentAge |-> 30, currentStage |-> "early", eventHistory |-> <<>>],
      [currentAge |-> 18, currentStage |-> "later", eventHistory |-> <<>>] }

\* Snapshots cut down to an age and its stage, the history dropped: sessions
\* resumed from them resolve choices in the mid and later stages
ResumedStates ==
    { [currentAge |-> 47, currentStage |-> "mid", eventHistory |-> <<>>],
      [currentAge |-> 68, currentStage |-> "later", eventHistory |-> <<>>] }

AnySnapshots == SavedStates \cup ForgedStates \cup ResumedStates

\* The saved sessions that ended past every age range of the wider catalogue
LateStates == {state \in SavedStates : state.currentAge > 60}

\* What Math.random() * 0.5 adds to a weight, times 100.  The term itself is
\* below 0.5, but its largest values make the double sum round up to the next
\* half: 1 + (1 - 2^-52) * 0.5 is 1.5.
JitterSteps == {0, 25, 50}

\* The jitter outcomes for n available scenarios
Jitters(n) == [1..n -> JitterSteps]

AssessmentWeights == {<<W("C", 40)>>, <<W("C", 5), W("mood", 3)>>}

TraitWeightMaps ==
    { <<W("C", 15)>>,
      <<W("C", -40), W("luck", 7)>>,
      <<W("O", 120), W("E", -120), W("A", 30), W("N", -30)>> }

\* Weight maps for the whole PersonalityEngine interface: a recognized key with
\* an unrecognized one, and unrecognized keys only
EngineWeightMaps == {<<W("C", -40), W("luck", 7)>>, <<W("mood", 3), W("c", 9)>>}

\* Arguments of addTrajectoryTags
TagLists == {<<"career">>, <<"art", "7">>, <<"2024", "art", "2024">>}

\* Arguments of getDominantTrajectories; 5 is the default
DominantCounts == {1, 3, 5}

\* Snapshots PersonalityEngine.getState() gave earlier: of the engine as
\* constructed, and of one that took a weight map twice and a tag
Drilled ==
    LET w == <<W("C", -40), W("luck", 7)>>
        once == [ConstructedPersonality EXCEPT
                    !.ocean = ApplyWeightsOcean(@, w),
                    !.confidence = ApplyWeightsConfidence(@, w)]
    IN  [once EXCEPT !.ocean = ApplyWeightsOcean(@, w),
                     !.confidence = ApplyWeightsConfidence(@, w),
                     !.trajectoryTags = AddTags(@, <<"career">>)]

SavedPersonalities == {GetState(ConstructedPersonality), GetState(Drilled)}

StressDeltas == {-45, 80}

TraitGrid == {v \in 0..100 : \E k \in (0 - GridHalf)..GridHalf : v = 50 + 10 * k}
StressGrid == {0, 30, 100}

----------------------------------------------------------------------------
(* State *)

P == [ocean |-> ocean, confidence |-> confidence, stress |-> stress,
      trajectoryTags |-> trajectoryTags]
E == [scenarios |-> scenarios, tables |-> tables, currentAge |-> currentAge,
      currentStage |-> currentStage, eventHistory |-> eventHistory,
      availableScenarios |-> availableScenarios]

SetP(p) ==
    /\ ocean' = p.ocean
    /\ confidence' = p.confidence
    /\ stress' = p.stress
    /\ trajectoryTags' = p.trajectoryTags
SetE(e) ==
    /\ scenarios' = e.scenarios
    /\ tables' = e.tables
    /\ currentAge' = e.currentAge
    /\ currentStage' = e.currentStage
    /\ eventHistory' = e.eventHistory
    /\ availableScenarios' = e.availableScenarios

NoFresh == [made |-> FALSE, threw |-> FALSE, p |-> ConstructedPersonality,
            e |-> ConstructedEvents]

Returns(op, a, threw, value) ==
    /\ lastOp' = op
    /\ arg' = a
    /\ ret' = [threw |-> threw, value |-> value]
    /\ fresh' = NoFresh

InitPersonality ==
    /\ ocean = InitOcean
    /\ confidence = InitConfidence
    /\ stress = InitStress
    /\ trajectoryTags = InitTags
InitEvents ==
    /\ scenarios = ConstructedEvents.scenarios
    /\ tables = ConstructedEvents.tables
    /\ currentAge = InitAge
    /\ currentStage = "early"
    /\ eventHistory = <<>>
    /\ availableScenarios = <<>>

Init ==
    /\ InitPersonality
    /\ InitEvents
    /\ currentQuestionIndex = 0
    /\ fresh = NoFresh
    /\ lastOp = "init"
    /\ arg = "none"
    /\ ret = [threw |-> FALSE, value |-> "none"]

----------------------------------------------------------------------------
(* PersonalityEngine operations *)

\* PersonalityEngine.reset()
Reset ==
    /\ SetP(ConstructedPersonality)
    /\ UNCHANGED <<eventVars, currentQuestionIndex>>
    /\ Returns("reset", "none", FALSE, "undefined")

\* PersonalityEngine.applyWeights(w)
ApplyWeights(w) ==
    /\ ocean' = ApplyWeightsOcean(ocean, w)
    /\ confidence' = ApplyWeightsConfidence(confidence, w)
    /\ UNCHANGED <<stress, trajectoryTags, eventVars, currentQuestionIndex>>
    /\ Returns("applyWeights", w, FALSE, "undefined")

\* PersonalityEngine.applyStress(d)
ApplyStress(d) ==
    /\ stress' = ApplyStressTo(stress, d)
    /\ UNCHANGED <<ocean, confidence, trajectoryTags, eventVars, currentQuestionIndex>>
    /\ Returns("applyStress", d, FALSE, "undefined")

\* PersonalityEngine.addTrajectoryTags(tags)
AddTrajectoryTagsOp(tags) ==
    /\ trajectoryTags' = AddTags(trajectoryTags, tags)
    /\ \A t \in 1..Len(trajectoryTags') : trajectoryTags'[t].count <= MaxTagCount
    /\ UNCHANGED <<ocean, confidence, stress, eventVars, currentQuestionIndex>>
    /\ Returns("addTrajectoryTags", tags, FALSE, "undefined")

\* PersonalityEngine.getDominantTrajectories(count)
GetDominantTrajectoriesOp(count) ==
    /\ UNCHANGED <<traitVars, eventVars, currentQuestionIndex>>
    /\ Returns("getDominantTrajectories", count, FALSE,
               GetDominantTrajectories(trajectoryTags, count))

\* PersonalityEngine.restoreState(state) with a snapshot saved earlier
RestorePersonalityOp(state) ==
    /\ SetP(RestoreState(P, state))
    /\ UNCHANGED <<eventVars, currentQuestionIndex>>
    /\ Returns("restorePersonality", state, FALSE, "undefined")

\* The derivations change nothing; each is applied once to the vector drawn.
DeriveMBTIOp ==
    /\ lastOp = "init"
    /\ UNCHANGED <<traitVars, eventVars, currentQuestionIndex>>
    /\ Returns("deriveMBTI", "none", FALSE, DeriveMBTI(ocean))

DeriveEnneagramOp ==
    /\ lastOp = "init"
    /\ UNCHANGED <<traitVars, eventVars, currentQuestionIndex>>
    /\ Returns("deriveEnneagram", "none", FALSE, DeriveEnneagram(ocean))

CalculateChoiceProbabilityOp(choice) ==
    /\ lastOp = "init"
    /\ UNCHANGED <<traitVars, eventVars, currentQuestionIndex>>
    /\ Returns("calculateChoiceProbability", choice, FALSE,
               CalculateChoiceProbability(ocean, stress, choice))

\* EventSystem.getChoiceAlignment(choice)
GetChoiceAlignmentOp(choice) ==
    /\ lastOp = "init"
    /\ UNCHANGED <<traitVars, eventVars, currentQuestionIndex>>
    /\ Returns("getChoiceAlignment", choice, FALSE, GetChoiceAlignment(P, choice))

----------------------------------------------------------------------------
(* App: the assessment *)

\* App.startAssessment: offered on the welcome screen, which is shown at the
\* start and after resetAll, so with an empty event history
StartAssessment ==
    /\ eventHistory = <<>>
    /\ SetP(ConstructedPersonality)
    /\ currentQuestionIndex' = 0
    /\ UNCHANGED eventVars
    /\ Returns("startAssessment", "none", FALSE, "undefined")

\* App.handleAssessmentChoice, for a question that is rendered
HandleAssessmentChoice(w) ==
    /\ eventHistory = <<>>
    /\ currentQuestionIndex < MaxQuestions
    /\ ocean' = ApplyWeightsOcean(ocean, w)
    /\ confidence' = ApplyWeightsConfidence(confidence, w)
    /\ currentQuestionIndex' = currentQuestionIndex + 1
    /\ UNCHANGED <<stress, trajectoryTags, eventVars>>
    /\ Returns("handleAssessmentChoice", w, FALSE, "undefined")

----------------------------------------------------------------------------
(* EventSystem operations *)

\* EventSystem.loadScenarios(); the promise resolves to value
LoadScenariosOp(doc) ==
    LET r == LoadScenarios(E, doc)
    IN  /\ SetE(r.e)
        /\ UNCHANGED <<traitVars, currentQuestionIndex>>
        /\ Returns("loadScenarios", doc, FALSE, r.value)

\* EventSystem.reset()
ResetEventsOp ==
    LET r == ResetEvents(E)
    IN  /\ SetE(r.e)
        /\ UNCHANGED <<traitVars, currentQuestionIndex>>
        /\ Returns("resetEvents", "none", r.threw, "undefined")

\* EventSystem.refreshAvailableScenarios()
RefreshOp ==
    LET r == RefreshAvailableScenarios(E)
    IN  /\ SetE(r.e)
        /\ UNCHANGED <<traitVars, currentQuestionIndex>>
        /\ Returns("refreshAvailableScenarios", "none", r.threw, "undefined")

\* EventSystem.processChoice(scenario, choice) with a scenario of the catalogue
ProcessChoiceOp(i, k, variation) ==
    /\ scenarios.defined
    /\ i \in 1..Len(scenarios.list)
    /\ k \in 1..Len(scenarios.list[i].choices)
    /\ Len(eventHistory) < MaxHist
    /\ LET r == ProcessChoice(P, E, scenarios.list[i], scenarios.list[i].choices[k],
                              variation)
       IN  /\ \A t \in 1..Len(r.p.trajectoryTags) : r.p.trajectoryTags[t].count <= MaxTagCount
           /\ SetP(r.p)
           /\ SetE(r.e)
           /\ UNCHANGED currentQuestionIndex
           /\ Returns("processChoice",
                      [scenario |-> scenarios.list[i], choice |-> scenarios.list[i].choices[k]],
                      FALSE, r.value)

\* How many scenarios a refresh would leave available now
AvailableCount ==
    LET r == RefreshAvailableScenarios(E)
    IN  IF r.threw THEN 0 ELSE Len(r.e.availableScenarios)

\* EventSystem.selectNextScenario(), one jitter per available scenario
SelectNextScenarioOp(jitter, pick) ==
    /\ jitter \in Jitters(AvailableCount)
    /\ pick \in 1..Max(1, Min(3, AvailableCount))
    /\ LET r == SelectNextScenario(P, E, jitter, pick)
       IN  /\ SetE(r.e)
           /\ UNCHANGED <<traitVars, currentQuestionIndex>>
           /\ Returns("selectNextScenario", [jitter |-> jitter, pick |-> pick], r.threw,
                      [found |-> r.found, scenario |-> r.value])

\* App.handleEventChoice: processChoice of the scenario presentNextScenario
\* got from selectNextScenario, with the choice clicked
HandleEventChoice(k, variation) ==
    /\ lastOp = "selectNextScenario"
    /\ ~ret.threw
    /\ ret.value.found
    /\ \E i \in 1..Len(scenarios.list) :
          /\ scenarios.list[i] = ret.value.scenario
          /\ ProcessChoiceOp(i, k, variation)

\* How many scenarios selectNextScenario would weigh if presentNextScenario ran
\* on engine e: none when shouldEndSimulation stops the session first
PresentedCount(e) ==
    LET end == ShouldEndSimulation(e)
    IN  IF end.threw \/ end.value THEN 0 ELSE Len(end.e.availableScenarios)

\* The rest of a handler that has just called presentNextScenario, whose result is r
Presented(op, jitter, pick, r) ==
    /\ SetE(r.e)
    /\ UNCHANGED <<traitVars, currentQuestionIndex>>
    /\ Returns(op, [jitter |-> jitter, pick |-> pick], r.threw,
               IF r.shown = "scenario"
               THEN [shown |-> r.shown, scenario |-> r.scenario]
               ELSE [shown |-> r.shown])

\* Whether the screen shows a scenario with its choices / the final timeline
ScenarioShown ==
    /\ lastOp \in {"startSimulation", "continueSimulation"}
    /\ ret.value.shown = "scenario"
TimelineShown ==
    /\ lastOp \in {"startSimulation", "continueSimulation"}
    /\ ret.value.shown = "timeline"

\* App.startSimulation (and App.exploreBranch, which does the same): reset, then
\* presentNextScenario.  Offered once the catalogue is loaded, and again from
\* the final timeline.
StartSimulation(jitter, pick) ==
    LET r0 == ResetEvents(E)
    IN  /\ lastOp = "loadScenarios" \/ TimelineShown
        /\ ~r0.threw
        /\ jitter \in Jitters(PresentedCount(r0.e))
        /\ pick \in 1..Max(1, Min(3, PresentedCount(r0.e)))
        /\ Presented("startSimulation", jitter, pick,
                     PresentNextScenario(P, r0.e, jitter, pick))

\* App.handleEventChoice(choice) on the scenario shown, the k-th of its choices
\* clicked: processChoice, then the outcome screen
ResolveShownScenario(k, variation) ==
    /\ ScenarioShown
    /\ k \in 1..Len(ret.value.scenario.choices)
    /\ LET r == ProcessChoice(P, E, ret.value.scenario, ret.value.scenario.choices[k],
                              variation)
       IN  /\ SetP(r.p)
           /\ SetE(r.e)
           /\ UNCHANGED currentQuestionIndex
           /\ Returns("handleEventChoice",
                      [scenario |-> ret.value.scenario,
                       choice |-> ret.value.scenario.choices[k]],
                      FALSE, r.value)

\* The age the engine had after the i-th resolved choice of its history
AgeAfter(e, i) ==
    IF i = Len(e.eventHistory) THEN e.currentAge ELSE e.eventHistory[i + 1].age

\* How many choices of the history advanced the age by one year more than the
\* base of their stage (the variation came out 1)
LongSteps(e) ==
    Cardinality({i \in 1..Len(e.eventHistory) :
        AgeAfter(e, i) - e.eventHistory[i].age
            = CalculateAgeAdvance(e.eventHistory[i].stage, 1)})

\* App.continueSimulation, the button of the outcome screen: presentNextScenario
ContinueSimulation(jitter, pick) ==
    /\ lastOp = "handleEventChoice"
    /\ jitter \in Jitters(PresentedCount(E))
    /\ pick \in 1..Max(1, Min(3, PresentedCount(E)))
    /\ Presented("continueSimulation", jitter, pick,
                 PresentNextScenario(P, E, jitter, pick))

\* EventSystem.shouldEndSimulation()
ShouldEndSimulationOp ==
    LET r == ShouldEndSimulation(E)
    IN  /\ SetE(r.e)
        /\ UNCHANGED <<traitVars, currentQuestionIndex>>
        /\ Returns("shouldEndSimulation", "none", r.threw, r.value)

\* EventSystem.getTimeline()
GetTimelineOp ==
    /\ UNCHANGED <<traitVars, eventVars, currentQuestionIndex>>
    /\ Returns("getTimeline", "none", FALSE, GetTimeline(E))

\* EventSystem.restoreState(state) with a snapshot saved by an earlier session
RestoreStateOp(state) ==
    LET r == RestoreStateEvents(E, state)
    IN  /\ SetE(r.e)
        /\ UNCHANGED <<traitVars, currentQuestionIndex>>
        /\ Returns("restoreState", state, r.threw, "undefined")

\* getState() of both engines, then restoreState() of both on freshly constructed
\* engines that loaded the document this catalogue came from (App.saveState, then
\* App.init and App.loadState on a new page).
SaveAndRestoreFresh ==
    LET docs == {d \in Documents : d.kind = "parsed" /\ d.scenarios = scenarios}
        loaded == IF docs = {} THEN ConstructedEvents
                  ELSE LoadScenarios(ConstructedEvents, CHOOSE d \in docs : TRUE).e
        r == RestoreStateEvents(loaded, GetStateEvents(E))
    IN  /\ fresh' = [made |-> TRUE, threw |-> r.threw,
                     p |-> RestoreState(ConstructedPersonality, GetState(P)),
                     e |-> r.e]
        /\ lastOp' = "saveAndRestoreFresh"
        /\ arg' = "none"
        /\ ret' = [threw |-> r.threw, value |-> "undefined"]
        /\ UNCHANGED <<traitVars, eventVars, currentQuestionIndex>>

----------------------------------------------------------------------------
(* Specifications *)

\* PersonalityEngine alone, driven through its mutating operations
NextTrait ==
    \/ Reset
    \/ \E w \in TraitWeightMaps : ApplyWeights(w)
    \/ \E d \in StressDeltas : ApplyStress(d)

SpecTrait == Init /\ [][NextTrait]_vars

\* The whole PersonalityEngine interface
NextEngine ==
    \/ Reset
    \/ \E w \in EngineWeightMaps : ApplyWeights(w)
    \/ ApplyStress(80)
    \/ \E tags \in TagLists : AddTrajectoryTagsOp(tags)
    \/ \E state \in SavedPersonalities : RestorePersonalityOp(state)
    \/ \E count \in DominantCounts : GetDominantTrajectoriesOp(count)

SpecEngine == Init /\ [][NextEngine]_vars

\* The derivations, each applied to a vector and stress level drawn at the start
InitDerive ==
    /\ ocean \in [Traits -> TraitGrid]
    /\ stress \in StressGrid
    /\ confidence = InitConfidence
    /\ trajectoryTags = InitTags
    /\ InitEvents
    /\ currentQuestionIndex = 0
    /\ fresh = NoFresh
    /\ lastOp = "init"
    /\ arg = "none"
    /\ ret = [threw |-> FALSE, value |-> "none"]

NextDerive ==
    \/ DeriveMBTIOp
    \/ DeriveEnneagramOp
    \/ \E c \in ProbeChoices : CalculateChoiceProbabilityOp(c)
    \/ \E c \in AlignmentProbes : GetChoiceAlignmentOp(c)

SpecDerive == InitDerive /\ [][NextDerive]_vars

\* Both engines and the assessment
Next ==
    \/ \E doc \in Documents : LoadScenariosOp(doc)
    \/ ResetEventsOp
    \/ RefreshOp
    \/ \E i \in 1..3, k \in 1..1, variation \in {0, 1} : ProcessChoiceOp(i, k, variation)
    \/ ShouldEndSimulationOp
    \/ \E state \in SavedStates : RestoreStateOp(state)
    \/ SaveAndRestoreFresh

Spec == Init /\ [][Next]_vars

\* The assessment, then sessions on the loaded catalogue
NextChoice ==
    \/ StartAssessment
    \/ \E w \in AssessmentWeights : HandleAssessmentChoice(w)
    \/ (eventHistory = <<>> /\ ApplyStress(-25))
    \/ LoadScenariosOp(DocGood)
    \/ ResetEventsOp
    \/ \E i \in 1..3, variation \in {0, 1} : ProcessChoiceOp(i, 1, variation)

SpecChoice == Init /\ [][NextChoice]_vars

\* Sessions through every EventSystem operation, restoreState with saved and
\* with forged snapshots
NextSession ==
    \/ LoadScenariosOp(DocGood)
    \/ ResetEventsOp
    \/ \E i \in 1..3, variation \in {0, 1} : ProcessChoiceOp(i, 1, variation)
    \/ \E jitter \in Jitters(AvailableCount), pick \in 1..3 :
          SelectNextScenarioOp(jitter, pick)
    \/ ShouldEndSimulationOp
    \/ \E state \in AnySnapshots : RestoreStateOp(state)
    \/ GetTimelineOp

SpecSession == Init /\ [][NextSession]_vars

\* The simulation loop of App on the wider catalogue: after a reset, a restored
\* snapshot or a resolved choice presentNextScenario selects, then
\* handleEventChoice resolves what was selected
NextSelect ==
    \/ LoadScenariosOp(DocWide)
    \/ ResetEventsOp
    \/ /\ lastOp # "selectNextScenario"
       /\ \E jitter \in Jitters(AvailableCount), pick \in 1..3 :
             SelectNextScenarioOp(jitter, pick)
    \/ \E variation \in {0, 1} : HandleEventChoice(1, variation)
    \/ \E state \in LateStates : RestoreStateOp(state)

SpecSelect == Init /\ [][NextSelect]_vars

\* A whole session as the App drives it, on the catalogue that never runs out.
\* The variation of calculateAgeAdvance comes out 1 at most MaxLongSteps times
\* in a session, at any of its steps.
StartCount == PresentedCount(ResetEvents(E).e)
NextLife ==
    \/ (lastOp = "init" /\ LoadScenariosOp(DocYears))
    \/ \E jitter \in Jitters(StartCount), pick \in 1..3 : StartSimulation(jitter, pick)
    \/ \E variation \in {0, 1} :
          /\ variation = 1 => LongSteps(E) < MaxLongSteps
          /\ ResolveShownScenario(1, variation)
    \/ \E jitter \in Jitters(PresentedCount(E)), pick \in 1..3 :
          ContinueSimulation(jitter, pick)

SpecLife == Init /\ [][NextLife]_vars

\* Sessions as the App drives them on the short catalogue, which they use up
NextLoop ==
    \/ (lastOp = "init" /\ LoadScenariosOp(DocShort))
    \/ \E jitter \in Jitters(StartCount), pick \in 1..3 : StartSimulation(jitter, pick)
    \/ \E variation \in {0, 1} : ResolveShownScenario(1, variation)
    \/ \E jitter \in Jitters(PresentedCount(E)), pick \in 1..3 :
          ContinueSimulation(jitter, pick)

SpecLoop == Init /\ [][NextLoop]_vars

----------------------------------------------------------------------------

(* Properties *)

Midpoint == [t \in Traits |-> 50]

\* C1: after any sequence of reset, applyWeights and applyStress calls every
\* trait value is within [0,100], every confidence band within [5,100] and
\* stress within [0,100].
C1_TraitRanges ==
    /\ \A t \in Traits : ocean[t] >= 0 /\ ocean[t] <= 100
    /\ \A t \in Traits : confidence[t] >= 5 /\ confidence[t] <= 100
    /\ stress >= 0 /\ stress <= 100

\* Every clamp has acted: a trait at each end, a band at its floor, stress at 0
\* after a negative delta.
C1_Witness ==
    /\ lastOp = "applyStress" /\ arg < 0 /\ stress = 0
    /\ ocean["O"] = 100 /\ ocean["E"] = 0 /\ ocean["C"] = 0
    /\ confidence["C"] = 5

\* The sixteen codes, and those with a given letter at a given place
MBTICodes ==
    {a \o b \o c \o d : a \in {"E", "I"}, b \in {"N", "S"}, c \in {"F", "T"}, d \in {"J", "P"}}
CodesWith(first, second, third, fourth) ==
    {a \o b \o c \o d : a \in first, b \in second, c \in third, d \in fourth}
AnyEI == {"E", "I"}
AnyNS == {"N", "S"}
AnyFT == {"F", "T"}
AnyJP == {"J", "P"}

\* C2: deriveMBTI returns one of the 16 codes, with E exactly when E >= 50,
\* N exactly when O >= 50, F exactly when A >= 50 and J exactly when C >= 50;
\* the all-50 vector gives "ENFJ".
C2_MBTIThresholds ==
    lastOp = "deriveMBTI" =>
        /\ ret.value \in MBTICodes
        /\ (ocean["E"] >= 50) <=> (ret.value \in CodesWith({"E"}, AnyNS, AnyFT, AnyJP))
        /\ (ocean["O"] >= 50) <=> (ret.value \in CodesWith(AnyEI, {"N"}, AnyFT, AnyJP))
        /\ (ocean["A"] >= 50) <=> (ret.value \in CodesWith(AnyEI, AnyNS, {"F"}, AnyJP))
        /\ (ocean["C"] >= 50) <=> (ret.value \in CodesWith(AnyEI, AnyNS, AnyFT, {"J"}))
        /\ (ocean = Midpoint => ret.value = "ENFJ")

C2_Witness == lastOp = "deriveMBTI" /\ ocean = Midpoint /\ ret.value = "ENFJ"

ExampleVector == [O |-> 60, C |-> 40, E |-> 70, A |-> 30, N |-> 50]

\* C3, as stated: with O=60, C=40, E=70, A=30, N=50 deriveMBTI returns "ENTJ".
C3_Original ==
    (lastOp = "deriveMBTI" /\ \A t \in Traits : ocean[t] = ExampleVector[t])
        => ret.value = "ENTJ"

\* C3, amended: with O=60, C=40, E=70, A=30, N=50 deriveMBTI returns "ENTP"
\* (C = 40 is below the midpoint, so the last letter is P).
C3_ExampleIsENTP ==
    (lastOp = "deriveMBTI" /\ \A t \in Traits : ocean[t] = ExampleVector[t])
        => ret.value = "ENTP"

C3_Witness ==
    /\ lastOp = "deriveMBTI"
    /\ \A t \in Traits : ocean[t] = ExampleVector[t]
    /\ ret.value \in MBTICodes

\* The score table of the specification, each formula times 10
TableScore(type, o) ==
    CASE type = 1 -> 15 * o["C"] + 5 * (100 - o["A"]) - 3 * o["O"]
      [] type = 2 -> 15 * o["A"] + 5 * o["E"] + 3 * o["N"]
      [] type = 3 -> 10 * o["C"] + 10 * o["E"] + 5 * (100 - o["A"])
      [] type = 4 -> 10 * o["O"] + 10 * o["N"] + 5 * (100 - o["E"])
      [] type = 5 -> 10 * o["O"] + 10 * (100 - o["E"]) + 5 * (100 - o["A"])
      [] type = 6 -> 10 * o["N"] + 5 * o["A"] + 5 * o["C"]
      [] type = 7 -> 10 * o["O"] + 10 * o["E"] + 5 * (100 - o["N"])
      [] type = 8 -> 10 * o["E"] + 10 * (100 - o["A"]) + 5 * (100 - o["N"])
      [] type = 9 -> 10 * o["A"] + 10 * (100 - o["N"]) + 3 * (100 - o["C"])

\* C4: deriveEnneagram returns a type in 1..9 whose table score is maximal, and
\* the smallest such type when several share the maximum (3 at the all-50 vector).
C4_EnneagramArgmax ==
    lastOp = "deriveEnneagram" =>
        /\ ret.value \in 1..9
        /\ \A u \in 1..9 : TableScore(u, ocean) <= TableScore(ret.value, ocean)
        /\ \A u \in 1..(ret.value - 1) : TableScore(u, ocean) < TableScore(ret.value, ocean)
        /\ (ocean = Midpoint => ret.value = 3)

\* The initial vector, where types 3, 4, 5, 7 and 8 tie at the maximum
C4_Witness ==
    /\ lastOp = "deriveEnneagram"
    /\ ocean = Midpoint
    /\ {u \in 1..9 : TableScore(u, ocean) = TableScore(ret.value, ocean)} = {3, 4, 5, 7, 8}

\* The specified probability, times 100, before clamping: a weight w on a
\* recognized dimension of value v contributes (v - 50) * w / 20 whatever its sign.
SignedTerm(w, t) == IF HasKey(w, t) THEN (ocean[t] - 50) * WeightOf(w, t) * 5 ELSE 0
SpecifiedAlignment(choice) ==
    5000 + SignedTerm(choice.ocean_weights, "O") + SignedTerm(choice.ocean_weights, "C")
         + SignedTerm(choice.ocean_weights, "E") + SignedTerm(choice.ocean_weights, "A")
         + SignedTerm(choice.ocean_weights, "N")
         + (IF choice.hasStress /\ choice.stress_delta < 0 THEN 20 * stress
            ELSE IF choice.hasStress /\ choice.stress_delta > 10 THEN (0 - 15) * stress
            ELSE 0)

\* C5: for a choice with a weight map calculateChoiceProbability returns the
\* specified alignment clamped to [10,90] (here times 100: [1000,9000]).
C5_ProbabilityClamped ==
    (lastOp = "calculateChoiceProbability" /\ arg.hasWeights) =>
        /\ ret.value >= 1000 /\ ret.value <= 9000
        /\ SpecifiedAlignment(arg) < 1000 => ret.value = 1000
        /\ SpecifiedAlignment(arg) > 9000 => ret.value = 9000
        /\ (SpecifiedAlignment(arg) >= 1000 /\ SpecifiedAlignment(arg) <= 9000)
              => ret.value = SpecifiedAlignment(arg)

\* A weight map extreme enough that the lower clamp decides the result
C5_Witness ==
    /\ lastOp = "calculateChoiceProbability"
    /\ arg.hasWeights
    /\ SpecifiedAlignment(arg) < 1000
    /\ ret.value = 1000

\* Whether a catalogue scenario is eligible at an age, stage and history
Eligible(sc, history, stage, age) ==
    /\ \A i \in 1..Len(history) : history[i].scenarioId # sc.id
    /\ sc.life_stage \in {"any", stage}
    /\ sc.age_range[1] <= age /\ age <= sc.age_range[2]

\* avail is exactly the eligible scenarios of list, in the order of list
IsFilterOf(avail, list, history, stage, age) ==
    /\ \A a \in 1..Len(avail) :
          \E i \in 1..Len(list) : list[i] = avail[a] /\ Eligible(list[i], history, stage, age)
    /\ \A i \in 1..Len(list) :
          Eligible(list[i], history, stage, age) => \E a \in 1..Len(avail) : avail[a] = list[i]
    /\ Len(avail) = Cardinality({i \in 1..Len(list) : Eligible(list[i], history, stage, age)})
    /\ \A a, b \in 1..Len(avail) :
          a < b => \E i, j \in 1..Len(list) : i < j /\ list[i] = avail[a] /\ list[j] = avail[b]

\* C6: getState() then restoreState() on fresh engines (the EventSystem with the
\* same catalogue loaded) gives the original's vector, confidence, stress and tag
\* counts, and its age, stage and history, with the available set recomputed
\* for them.
C6_RoundTrip ==
    (lastOp = "saveAndRestoreFresh" /\ ~fresh.threw) =>
        /\ fresh.p.ocean = ocean
        /\ fresh.p.confidence = confidence
        /\ fresh.p.stress = stress
        /\ fresh.p.trajectoryTags = trajectoryTags
        /\ fresh.e.currentAge = currentAge
        /\ fresh.e.currentStage = currentStage
        /\ fresh.e.eventHistory = eventHistory
        /\ fresh.e.scenarios = scenarios
        /\ IsFilterOf(fresh.e.availableScenarios, scenarios.list, eventHistory,
                      currentStage, currentAge)

\* A round trip of a session under way, whose own available set is stale
C6_Witness ==
    /\ lastOp = "saveAndRestoreFresh" /\ ~fresh.threw
    /\ Len(eventHistory) >= 1
    /\ trajectoryTags # <<>>
    /\ ocean # InitOcean
    /\ currentAge > InitAge
    /\ fresh.e.availableScenarios # availableScenarios

\* C7: after refreshAvailableScenarios the available set is exactly the
\* catalogue scenarios, in catalogue order, whose id is in no history record,
\* whose stage affinity is "any" or the current stage and whose age range
\* contains the current age; none of its members has an id found in history.
C7_RefreshFilters ==
    (lastOp = "refreshAvailableScenarios" /\ ~ret.threw) =>
        /\ IsFilterOf(availableScenarios, scenarios.list, eventHistory,
                      currentStage, currentAge)
        /\ \A a \in 1..Len(availableScenarios) :
              availableScenarios[a].id \notin {eventHistory[i].scenarioId :
                                                  i \in 1..Len(eventHistory)}

\* A used scenario whose stage and age range match is left out, another is kept
C7_Witness ==
    /\ lastOp = "refreshAvailableScenarios" /\ ~ret.threw
    /\ availableScenarios # <<>>
    /\ \E i \in 1..Len(scenarios.list) :
          /\ scenarios.list[i].id \in {eventHistory[h].scenarioId : h \in 1..Len(eventHistory)}
          /\ scenarios.list[i].life_stage \in {"any", currentStage}
          /\ scenarios.list[i].age_range[1] <= currentAge
          /\ currentAge <= scenarios.list[i].age_range[2]

NoneEligible ==
    \A i \in 1..Len(scenarios.list) :
        ~Eligible(scenarios.list[i], eventHistory, currentStage, currentAge)

\* C8: shouldEndSimulation returns true exactly when the age is at least 75, or
\* no catalogue scenario is eligible and the history holds at least 5 records.
C8_ShouldEnd ==
    (lastOp = "shouldEndSimulation" /\ ~ret.threw) =>
        /\ ret.value <=> (currentAge >= 75 \/ (NoneEligible /\ Len(eventHistory) >= 5))
        /\ (NoneEligible /\ Len(eventHistory) = 4 /\ currentAge < 75) => ~ret.value
        /\ (NoneEligible /\ Len(eventHistory) = 5) => ret.value
        /\ currentAge >= 75 => ret.value

\* Nothing eligible, four records, younger than 75: the simulation goes on
C8_Witness ==
    /\ lastOp = "shouldEndSimulation" /\ ~ret.threw
    /\ scenarios.list # <<>>
    /\ NoneEligible /\ Len(eventHistory) = 4 /\ currentAge < 75
    /\ ret.value = FALSE

\* The first choice of a session: processChoice of the choice with
\* stress_delta -10 and ocean_weights {C: +15} on a reset EventSystem
FirstCommit ==
    /\ currentAge = 18 /\ currentStage = "early" /\ eventHistory = <<>>
    /\ lastOp' = "processChoice"
    /\ arg'.choice.ocean_weights = <<W("C", 15)>>
    /\ arg'.choice.hasStress /\ arg'.choice.stress_delta = -10

\* C9, as stated: that choice leaves stress no higher and at least 0, raises C
\* by exactly 15, takes the age to 20 or 21 and the history to one record whose
\* oceanChanges has C as its only key.
C9_Original ==
    [][FirstCommit =>
          /\ stress' <= stress /\ stress' >= 0
          /\ ocean'["C"] = ocean["C"] + 15
          /\ currentAge' \in {20, 21}
          /\ Len(eventHistory') = 1
          /\ DOMAIN eventHistory'[1].oceanChanges = {"C"}]_vars

\* C9, amended: C becomes min(100, C + 15), so it rises by exactly 15 when it was
\* at most 85; oceanChanges has C as its only key, with that rise as its value,
\* unless C was already 100, and then it is empty.
C9_FirstCommit ==
    [][FirstCommit =>
          /\ stress' <= stress /\ stress' >= 0
          /\ stress' = (IF stress >= 10 THEN stress - 10 ELSE 0)
          /\ ocean'["C"] = (IF ocean["C"] <= 85 THEN ocean["C"] + 15 ELSE 100)
          /\ \A t \in Traits \ {"C"} : ocean'[t] = ocean[t]
          /\ currentAge' \in {20, 21}
          /\ Len(eventHistory') = 1
          /\ ret'.value = eventHistory'[1]
          /\ DOMAIN eventHistory'[1].oceanChanges = (IF ocean["C"] < 100 THEN {"C"} ELSE {})
          /\ ocean["C"] < 100 => eventHistory'[1].oceanChanges["C"] = ocean'["C"] - ocean["C"]]_vars

\* The first choice of a session resolved with C above 85 and stress below 10
C9_Witness ==
    /\ lastOp = "processChoice"
    /\ arg.choice.ocean_weights = <<W("C", 15)>>
    /\ arg.choice.hasStress /\ arg.choice.stress_delta = -10
    /\ Len(eventHistory) = 1
    /\ eventHistory[1].age = 18 /\ eventHistory[1].stage = "early"
    /\ eventHistory[1].oceanBefore["C"] > 85
    /\ eventHistory[1].stressBefore < 10
    /\ currentAge \in {20, 21}

\* C10: a loadScenarios that fails reports it without throwing and leaves the
\* scenario list, the auxiliary tables, the available set, the age, the stage
\* and the history as they were.
C10_FailedLoadKeepsState ==
    [][(lastOp' = "loadScenarios" /\ ret'.value = FALSE) =>
          /\ ~ret'.threw
          /\ UNCHANGED <<scenarios, tables, availableScenarios, currentAge, currentStage,
                         eventHistory>>]_vars

\* The stage the age stands for
StageOfAge(age) == IF age <= 25 THEN "early" ELSE IF age <= 50 THEN "mid" ELSE "later"

\* C11: in every state reachable through loadScenarios, reset, processChoice,
\* restoreState with any snapshot, selectNextScenario and shouldEndSimulation,
\* currentStage is the stage derived from currentAge (at most 25 early, 26 to 50
\* mid, otherwise later).
C11_StageFollowsAge == currentStage = StageOfAge(currentAge)

\* C12: when reset, processChoice or restoreState has returned, the stored
\* available set is the filter of the catalogue against the age, stage and
\* history they left; between operations it is never stale.
C12_AvailableNeverStale ==
    (lastOp \in {"resetEvents", "processChoice", "restoreState"} /\ ~ret.threw) =>
        IsFilterOf(availableScenarios, scenarios.list, eventHistory, currentStage, currentAge)

\* The weight of the a-th available scenario when selectNextScenario has just
\* returned: 1 + 0.5 for each of its context tags that contains, or is contained
\* in, one of the three dominant trajectory tags, + the jitter drawn for it
\* (times 100)
SelectionWeight(a) ==
    LET dominant == GetDominantTrajectories(trajectoryTags, 3)
        tags == availableScenarios[a].context_tags
        boosted == {i \in 1..Len(tags) :
                      \E d \in 1..Len(dominant) :
                          Includes(tags[i], dominant[d]) \/ Includes(dominant[d], tags[i])}
    IN  100 + 50 * Cardinality(boosted) + arg.jitter[a]

\* How many available scenarios weigh strictly more than the a-th
Outweighing(a) ==
    Cardinality({b \in 1..Len(availableScenarios) : SelectionWeight(b) > SelectionWeight(a)})

\* C13: selectNextScenario recomputes the available set and returns null exactly
\* when it is empty; otherwise, whatever the jitter and the pick, it returns a
\* member of the available set that fewer than min(3, available-count) members
\* outweigh.
C13_SelectsAmongTopThree ==
    (lastOp = "selectNextScenario" /\ ~ret.threw) =>
        /\ IsFilterOf(availableScenarios, scenarios.list, eventHistory, currentStage,
                      currentAge)
        /\ ret.value.found <=> availableScenarios # <<>>
        /\ ~ret.value.found => ret.value.scenario = "null"
        /\ ret.value.found =>
              \E a \in 1..Len(availableScenarios) :
                  /\ availableScenarios[a] = ret.value.scenario
                  /\ Outweighing(a) < Min(3, Len(availableScenarios))

\* Four scenarios available and four trajectory tags, of which three count: the
\* one returned is third by weight, and another weighs less
C13_Witness ==
    /\ lastOp = "selectNextScenario" /\ ~ret.threw /\ ret.value.found
    /\ Len(availableScenarios) = 4
    /\ Len(trajectoryTags) = 4
    /\ \E a, b \in 1..4 :
          /\ availableScenarios[a] = ret.value.scenario
          /\ Outweighing(a) = 2
          /\ SelectionWeight(b) < SelectionWeight(a)
          /\ arg.jitter[b] > arg.jitter[a]

\* The keys of a weight map
KeysOf(w) == {w[i].key : i \in 1..Len(w)}

\* C14: applyWeights raises no error and changes only the value and the
\* confidence of the dimensions O, C, E, A, N that are keys of the map: the
\* other dimensions, the stress and the tag counts stay as they were, and a key
\* that is no dimension adds nothing to the vector or to the confidence.
C14_ApplyWeightsFrame ==
    [][lastOp' = "applyWeights" =>
          /\ ~ret'.threw
          /\ DOMAIN ocean' = Traits /\ DOMAIN confidence' = Traits
          /\ \A t \in Traits \ KeysOf(arg') :
                ocean'[t] = ocean[t] /\ confidence'[t] = confidence[t]
          /\ stress' = stress
          /\ trajectoryTags' = trajectoryTags
          /\ KeysOf(arg') \cap Traits = {} => (ocean' = ocean /\ confidence' = confidence)]_vars

\* applyWeights with an unrecognized key next to a recognized one, on an engine
\* that holds tags and a raised stress: only the recognized dimension moved
C14_Witness ==
    /\ lastOp = "applyWeights"
    /\ "luck" \in KeysOf(arg) /\ "C" \in KeysOf(arg)
    /\ trajectoryTags # <<>>
    /\ stress > InitStress
    /\ ocean["C"] # 50 /\ confidence["C"] < 30
    /\ \A t \in Traits \ {"C"} : ocean[t] = 50 /\ confidence[t] = 30

\* What applyWeights does to the confidence of dimension t
LoweredBy(w, c, t) == IF t \in KeysOf(w) THEN (IF c[t] - 2 >= 5 THEN c[t] - 2 ELSE 5) ELSE c[t]

\* C15, as stated: no operation but reset raises the confidence band of a
\* dimension; applyWeights lowers that of each dimension it names by 2, floored
\* at 5, and every other operation, restoreState included, leaves it no higher.
C15_Original ==
    [][/\ lastOp' = "applyWeights" =>
            \A t \in Traits : confidence'[t] = LoweredBy(arg', confidence, t)
       /\ lastOp' # "reset" => \A t \in Traits : confidence'[t] <= confidence[t]]_vars

\* C15, amended: restoreState sets each band to the snapshot's, higher or lower;
\* applyWeights lowers by 2, floored at 5, the band of each dimension it names
\* and leaves the others; applyStress and addTrajectoryTags leave every band;
\* reset puts every band back to 30; no band leaves 5..30.
C15_ConfidenceSteps ==
    [][/\ lastOp' = "applyWeights" =>
            \A t \in Traits : confidence'[t] = LoweredBy(arg', confidence, t)
       /\ lastOp' \in {"applyStress", "addTrajectoryTags"} => confidence' = confidence
       /\ lastOp' = "restorePersonality" => confidence' = arg'.confidence
       /\ lastOp' = "reset" => confidence' = [t \in Traits |-> 30]
       /\ \A t \in Traits : confidence'[t] \in 5..30]_vars

\* applyWeights met the floor: C was named while its band was already at 5
C15_Witness ==
    /\ lastOp = "applyWeights" /\ "C" \in KeysOf(arg)
    /\ confidence["C"] = 5 /\ ocean["C"] = 0
    /\ \A t \in Traits \ {"C"} : confidence[t] = 30
    /\ trajectoryTags # <<>>

\* s is an initial part of t
IsPrefix(s, t) == Len(s) <= Len(t) /\ \A i \in 1..Len(s) : t[i] = s[i]

\* What processChoice and getTimeline do to and with the history
AppendsAndProjects ==
    /\ lastOp' = "processChoice" =>
          /\ Len(eventHistory') = Len(eventHistory) + 1
          /\ IsPrefix(eventHistory, eventHistory')
          /\ eventHistory'[Len(eventHistory')] = ret'.value
    /\ lastOp' = "getTimeline" =>
          /\ eventHistory' = eventHistory
          /\ Len(ret'.value) = Len(eventHistory)
          /\ \A i \in 1..Len(eventHistory) :
                /\ ret'.value[i].age = eventHistory[i].age
                /\ ret'.value[i].stage = eventHistory[i].stage
                /\ ret'.value[i].title = eventHistory[i].title
                /\ ret'.value[i].choice = eventHistory[i].choiceTitle
                /\ ret'.value[i].outcome = eventHistory[i].outcome
                /\ DOMAIN ret'.value[i] = {"age", "stage", "title", "choice", "outcome"}

\* C16, as stated: processChoice appends exactly one record and leaves the
\* earlier ones; no operation but reset removes or alters a record; getTimeline
\* returns one projected entry per record in insertion order.
C16_Original ==
    [][/\ AppendsAndProjects
       /\ lastOp' # "resetEvents" => IsPrefix(eventHistory, eventHistory')]_vars

\* C16, amended: restoreState too replaces the history, by the snapshot's; reset
\* empties it; every operation other than processChoice, reset and restoreState
\* leaves it as it was.
C16_HistoryAppendOnly ==
    [][/\ AppendsAndProjects
       /\ lastOp' = "restoreState" => eventHistory' = arg'.eventHistory
       /\ lastOp' = "resetEvents" => eventHistory' = <<>>
       /\ lastOp' \notin {"processChoice", "resetEvents", "restoreState"} =>
             eventHistory' = eventHistory]_vars

\* The timeline of a session with two different records
C16_Witness ==
    /\ lastOp = "getTimeline"
    /\ Len(eventHistory) = 2
    /\ Len(ret.value) = 2
    /\ ret.value[1].title # ret.value[2].title
    /\ ret.value[1].age < ret.value[2].age

\* The probability (times 100) getChoiceAlignment has just bucketed
BucketedProbability == CalculateChoiceProbability(ocean, stress, arg)

\* C17: getChoiceAlignment gives the band of the first test that the
\* probability p passes, in the order p > 70 strongly aligned, p > 55 somewhat
\* aligned, p < 30 against your nature, p < 45 a stretch for you, else neutral:
\* p = 70 is somewhat aligned, every p from 45 to 55 is neutral, p = 30 is a
\* stretch for you.
C17_AlignmentBands ==
    lastOp = "getChoiceAlignment" =>
        LET p == BucketedProbability
        IN  /\ ~ret.threw
            /\ ret.value \in {"strongly aligned", "somewhat aligned", "against your nature",
                              "a stretch for you", "neutral"}
            /\ ret.value = "strongly aligned" <=> p > 7000
            /\ ret.value = "somewhat aligned" <=> (p > 5500 /\ p <= 7000)
            /\ ret.value = "against your nature" <=> p < 3000
            /\ ret.value = "a stretch for you" <=> (p >= 3000 /\ p < 4500)
            /\ ret.value = "neutral" <=> (p >= 4500 /\ p <= 5500)

\* A probability of exactly 70, bucketed as somewhat aligned
C17_Witness ==
    /\ lastOp = "getChoiceAlignment"
    /\ BucketedProbability = 7000
    /\ ret.value = "somewhat aligned"

\* The vector and the stress a choice leaves, from those before it
OceanAfterChoice(o, choice) ==
    [t \in Traits |->
        IF choice.hasWeights /\ t \in KeysOf(choice.ocean_weights)
        THEN LET v == o[t] + WeightOf(choice.ocean_weights, t)
             IN  IF v < 0 THEN 0 ELSE IF v > 100 THEN 100 ELSE v
        ELSE o[t]]
StressAfterChoice(s, choice) ==
    IF ~choice.hasStress THEN s
    ELSE LET v == s + choice.stress_delta
         IN  IF v < 0 THEN 0 ELSE IF v > 100 THEN 100 ELSE v

\* C18: the record processChoice returns carries the age and stage from before
\* the age advance, the vector and stress from immediately before the call as
\* oceanBefore and stressBefore, those left by the choice's weights and stress
\* delta as oceanAfter and stressAfter, and an oceanChanges map whose keys are
\* exactly the dimensions whose value changed, each with after - before.
C18_EventRecord ==
    [][lastOp' = "processChoice" =>
          LET event == ret'.value
          IN  /\ event.scenarioId = arg'.scenario.id /\ event.choiceId = arg'.choice.id
              /\ event.age = currentAge /\ event.stage = currentStage
              /\ event.oceanBefore = ocean /\ event.stressBefore = stress
              /\ event.oceanAfter = ocean' /\ event.stressAfter = stress'
              /\ ocean' = OceanAfterChoice(ocean, arg'.choice)
              /\ stress' = StressAfterChoice(stress, arg'.choice)
              /\ DOMAIN event.oceanChanges = {t \in Traits : ocean'[t] # ocean[t]}
              /\ \A t \in DOMAIN event.oceanChanges :
                    event.oceanChanges[t] = ocean'[t] - ocean[t]]_vars

\* A choice weighting O by -60 resolved with O already 0: the stress moved, the
\* vector did not, and oceanChanges is empty
C18_Witness ==
    /\ lastOp = "processChoice"
    /\ arg.choice.hasWeights /\ "O" \in KeysOf(arg.choice.ocean_weights)
    /\ ret.value.oceanBefore["O"] = 0 /\ ret.value.oceanAfter["O"] = 0
    /\ DOMAIN ret.value.oceanChanges = {}
    /\ ret.value.stressAfter > ret.value.stressBefore
    /\ ret.value.age < currentAge

\* The advances the stage before the call allows: its base, or its base + 1
AdvancesOf(stage) ==
    IF stage = "early" THEN {2, 3} ELSE IF stage = "mid" THEN {3, 4} ELSE {4, 5}

\* C19: every processChoice raises currentAge by the base of the stage before
\* the call (early 2, mid 3, later 4) or by one more, and when it returns the
\* stage is the one derived from the new age.
C19_AgeAdvance ==
    [][(lastOp' = "processChoice" /\ currentStage \in {"early", "mid", "later"}) =>
          /\ currentAge' - currentAge \in AdvancesOf(currentStage)
          /\ currentStage' = StageOfAge(currentAge')]_vars

\* A choice resolved at 47 in the mid stage that took the age past 50: it
\* advanced by 4 and the stage became later
C19_Witness ==
    /\ lastOp = "processChoice"
    /\ ret.value.stage = "mid" /\ ret.value.age = 47
    /\ currentAge = 51 /\ currentStage = "later"

\* The tags that have a counter, the counter of a tag, the place of a tag among
\* the entries, and the place of its first occurrence in an argument list
TagKeys(tt) == {tt[i].tag : i \in 1..Len(tt)}
CountOf(tt, tag) ==
    IF tag \in TagKeys(tt) THEN tt[CHOOSE i \in 1..Len(tt) : tt[i].tag = tag].count ELSE 0
EntryPlace(tt, tag) == CHOOSE i \in 1..Len(tt) : tt[i].tag = tag
FirstPlace(tags, tag) ==
    CHOOSE i \in 1..Len(tags) : tags[i] = tag /\ \A j \in 1..(i - 1) : tags[j] # tag
Occurrences(tags, tag) == Cardinality({i \in 1..Len(tags) : tags[i] = tag})

\* k1 was first added before k2, when the entries were tt and tags is added
AddedBefore(tt, tags, k1, k2) ==
    IF k1 \in TagKeys(tt)
    THEN k2 \in TagKeys(tt) => EntryPlace(tt, k1) < EntryPlace(tt, k2)
    ELSE k2 \notin TagKeys(tt) /\ FirstPlace(tags, k1) < FirstPlace(tags, k2)

\* addTrajectoryTags counts every occurrence, and keeps no other tag
CountsTags ==
    lastOp' = "addTrajectoryTags" =>
        /\ TagKeys(trajectoryTags') = TagKeys(trajectoryTags) \cup {arg'[i] : i \in 1..Len(arg')}
        /\ Len(trajectoryTags') = Cardinality(TagKeys(trajectoryTags'))
        /\ \A k \in TagKeys(trajectoryTags') :
              CountOf(trajectoryTags', k) = CountOf(trajectoryTags, k) + Occurrences(arg', k)

\* getDominantTrajectories(count) returns min(count, number of tags) distinct
\* tags by non-increasing counter, equal counters in the order of the entries
DominantByCountThenEntry ==
    lastOp' = "getDominantTrajectories" =>
        LET tt == trajectoryTags
            r == ret'.value
            before(k1, k2) ==
                \/ CountOf(tt, k1) > CountOf(tt, k2)
                \/ CountOf(tt, k1) = CountOf(tt, k2) /\ EntryPlace(tt, k1) < EntryPlace(tt, k2)
        IN  /\ trajectoryTags' = trajectoryTags
            /\ Len(r) = (IF arg' <= Len(tt) THEN arg' ELSE Len(tt))
            /\ \A i \in 1..Len(r) : r[i] \in TagKeys(tt)
            /\ \A i, j \in 1..Len(r) : i < j => before(r[i], r[j])
            /\ \A k \in TagKeys(tt) \ {r[i] : i \in 1..Len(r)} :
                  \A i \in 1..Len(r) : before(r[i], k)

NeutralProbability == 50

\* C21: for a choice that carries no trait-weight map, in every state of the
\* personality engine, calculateChoiceProbability returns the fixed neutral
\* value 0.5 and getChoiceAlignment classifies the choice as "neutral".
C21_NoWeightsNeutral ==
    /\ (lastOp = "calculateChoiceProbability" /\ ~arg.hasWeights) =>
           (~ret.threw /\ ret.value = NeutralProbability)
    /\ (lastOp = "getChoiceAlignment" /\ ~arg.hasWeights) =>
           (~ret.threw /\ ret.value = "neutral")

\* The state is one of a session the App drives (reset, then present, resolve,
\* present, ...)
InSession == lastOp \in {"startSimulation", "handleEventChoice", "continueSimulation"}

\* C22: a session driven as the caller does it (reset; then stop if
\* shouldEndSimulation is true or selectNextScenario returns null, otherwise
\* processChoice on the selected scenario) stops after at most 19 resolved
\* choices, whatever the jitter and the age variation: the history of the
\* session never holds more than 19 records, after the 19th shouldEndSimulation
\* is true and the next presentNextScenario shows the timeline, and currentAge
\* never exceeds 79.
C22_SessionStops ==
    InSession =>
        /\ Len(eventHistory) <= 19
        /\ currentAge <= 79
        /\ Len(eventHistory) = 19 => ShouldEndSimulation(E).value
        /\ (lastOp = "continueSimulation" /\ Len(eventHistory) = 19) =>
               ret.value.shown = "timeline"
        /\ ScenarioShown => (currentAge < EndAge /\ Len(eventHistory) < 19)

\* A session that stopped after 19 resolved choices at age 79
C22_Witness ==
    /\ TimelineShown
    /\ Len(eventHistory) = 19
    /\ currentAge = 79

\* The place of a stage in the order early, mid, later
StageRank(stage) == CASE stage = "early" -> 1 [] stage = "mid" -> 2 [] stage = "later" -> 3

\* C23: within a session, a processChoice that starts from a state whose stage
\* matches its age strictly increases currentAge and either keeps currentStage
\* or moves it to the next stage in the order early, mid, later: never from
\* early directly to later, never backward; the stage afterwards matches the age
\* again, so this holds along the whole sequence of choices.
C23_AgeAndStageForward ==
    [][(lastOp' = "handleEventChoice" /\ currentStage = StageOfAge(currentAge)) =>
           /\ currentAge' > currentAge
           /\ StageRank(currentStage') \in {StageRank(currentStage),
                                           StageRank(currentStage) + 1}
           /\ currentStage' = StageOfAge(currentAge')
           /\ ret'.value.age = currentAge
           /\ ret'.value.stage = currentStage]_vars

\* A session that began in the early stage has just moved from mid to later
C23_Witness ==
    /\ lastOp = "handleEventChoice"
    /\ eventHistory[1].stage = "early"
    /\ ret.value.stage = "mid"
    /\ currentStage = "later"

\* How many context tags of the a-th available scenario match a dominant tag
MatchCount(a) ==
    Cardinality(MatchingTags(availableScenarios[a],
                             GetDominantTrajectories(trajectoryTags, 3)))

\* The a-th available scenario comes before the b-th in the candidates as
\* sorted: it weighs more, or as much and precedes it in the available list
\* (the sort is stable)
RanksAbove(a, b) ==
    \/ SelectionWeight(a) > SelectionWeight(b)
    \/ (SelectionWeight(a) = SelectionWeight(b) /\ a < b)

\* C24: in selectNextScenario, for every jitter outcome, an available scenario
\* with strictly more trajectory-matching context tags ranks above one with
\* fewer, and the scenario returned is never one that at least three other
\* available scenarios beat in matching context tags.
C24_MoreMatchesRankAbove ==
    (lastOp = "selectNextScenario" /\ ~ret.threw /\ ret.value.found) =>
        /\ \A a, b \in 1..Len(availableScenarios) :
               MatchCount(a) > MatchCount(b) => RanksAbove(a, b)
        /\ \A a \in 1..Len(availableScenarios) :
               availableScenarios[a] = ret.value.scenario =>
                   Cardinality({b \in 1..Len(availableScenarios) :
                                   MatchCount(b) > MatchCount(a)}) < 3

\* C25: in a session where processChoice is only called with the scenario that
\* selectNextScenario has just returned (the caller's loop), on a catalogue of
\* unique ids, no two history records share a scenarioId, every record is of a
\* catalogue scenario, and the history is never longer than the catalogue.
C25_NoScenarioTwice ==
    InSession =>
        /\ \A i, j \in 1..Len(eventHistory) :
               eventHistory[i].scenarioId = eventHistory[j].scenarioId => i = j
        /\ \A i \in 1..Len(eventHistory) :
               \E s \in 1..Len(scenarios.list) :
                   scenarios.list[s].id = eventHistory[i].scenarioId
        /\ Len(eventHistory) <= Len(scenarios.list)
        /\ ScenarioShown => ret.value.scenario.id \notin UsedIds(eventHistory)

\* A session that resolved every scenario of the catalogue, the last of them
\* while the other two were still in their age range, and then stopped
C25_Witness ==
    /\ TimelineShown
    /\ Len(eventHistory) = Len(scenarios.list)
    /\ eventHistory[3].scenarioId = "pause"
    /\ currentAge <= 60

====
